---- MODULE Spec2Model ----
(***************************************************************************)
(* Verification model of the not-wikipedia growth engine: the SQLite       *)
(* graph store (articles, links, discovery_queue), the wiki_next_task      *)
(* selector, the wiki_discover engine and the parallel worker loop of the  *)
(* coordinator script.                                                     *)
(***************************************************************************)
EXTENDS Integers, Sequences, FiniteSets, TLC

VARIABLES
  queue,        \* rows of table discovery_queue
  now,          \* value of datetime('now')
  enqTrue,      \* per target: queueDiscoveredConcept calls that returned true
  enqFalse,     \* per target: some queueDiscoveredConcept call returned false
  claimCount,   \* per row id: callers to which the row was handed out
  sel,          \* per caller: row read by getNextFromDiscoveryQueue
  pc,           \* per worker: position in run_worker
  task,         \* per worker: task_json of the current iteration
  newArticle,   \* per worker: new_article of the current iteration
  discLinks,    \* per worker: links still to be processed by discoverConcepts
  srcDepth,     \* per worker: sourceDepth read by discoverConcepts
  discRan,      \* per worker: run_discovery ran discoverConcepts in this iteration
  workerLoop,   \* per worker: worker_loop
  crashes,      \* number of worker crashes so far
  taskLock,     \* directory ${TASK_LOCK}.dir exists
  wikiFiles,    \* *.html files in WIKI_DIR
  articles,     \* rows of table articles
  links,        \* rows of table links
  placeholders, \* files whose content holds NEXT_PAGE_PLACEHOLDER
  selTask,      \* result of the last selectNextTask call
  coord,        \* the coordinator that spawned the workers: running, stopping, exited
  coordLock,    \* instance whose pid file $COORDINATOR_LOCK holds, or none
  other,        \* another instance of the script runs as coordinator
  doneMarker,   \* per worker: file $WORKER_DONE_DIR/worker-<id> exists
  live,         \* per worker id: live run_worker processes with that id
  iso,          \* per worker: isolation_dir of the current iteration exists
  orphanIso,    \* isolation directories left behind by dead worker processes
  copyLock,     \* worker that made the directory ${COPY_LOCK}.dir, or 0
  discResult,   \* DiscoverResult of the last wiki_discover call
  graphOp,      \* the last call that rewrote links or inlinks, with its arguments
  tx,           \* the open runMigration transaction: its phase and uncommitted tables
  seen,         \* what the last getOrphanArticles call of another connection returned
  loopFile,     \* number in the file $GLOBAL_LOOP_COUNT, or -1 when there is no file
  loopLock,     \* directory ${GLOBAL_LOOP_COUNT}.lock exists
  waited,       \* per worker: waited of the acquire_file_lock call it is in
  count,        \* per worker: count read by increment_global_loop
  maxWritten,   \* largest number an increment_global_loop call has written
  iterations,   \* loop iterations begun by all workers since the coordinator started
  snapshot,     \* per worker: files listed in snapshot_file
  isoFiles,     \* per worker: files the agent wrote into "$isolation_dir/dist/wiki"
  produced      \* per worker: files the agent of the current iteration wrote

vars == <<queue, now, enqTrue, enqFalse, claimCount, sel, pc, task,
          newArticle, discLinks, srcDepth, discRan, workerLoop, crashes,
          taskLock, wikiFiles, articles, links, placeholders, selTask,
          coord, coordLock, other, doneMarker, live, iso, orphanIso, copyLock,
          discResult, graphOp, tx, seen, loopFile, loopLock, waited, count,
          maxWritten, iterations, snapshot, isoFiles, produced>>

storeVars  == <<queue, now, enqTrue, enqFalse, claimCount, sel>>
workerVars == <<pc, task, newArticle, discLinks, srcDepth, discRan, workerLoop,
                crashes, taskLock, wikiFiles>>
graphVars  == <<articles, links, placeholders>>
coordVars  == <<coord, coordLock, other, doneMarker, live, iso, orphanIso,
                copyLock>>
discVars   == <<discResult, graphOp>>
txVars     == <<tx, seen>>
loopVars   == <<loopFile, loopLock, waited, count, maxWritten, iterations>>
snapVars   == <<snapshot, isoFiles, produced>>

-----------------------------------------------------------------------------
(* Bounds of the model *)

MaxTime == 1
MaxRows == 3
MaxLoops == 2
MaxCrashes == 1
MaxInlinks == 1
MaxDiscDepth == 2
MaxDiscLinks == 2

(* Program constants *)

MAX_DISCOVERY_DEPTH == 3

Workers == {1, 2}
Files == {"a.html", "b.html"}
IndexFile == "index.html"
DiscFiles == {"a.html", "b.html", "c.html"}

None == "none"
Pending == "pending"
InProgress == "in_progress"
Completed == "completed"

Max(a, b) == IF a >= b THEN a ELSE b
Min(a, b) == IF a <= b THEN a ELSE b

-----------------------------------------------------------------------------
(* Graph store: table discovery_queue *)

DiscoveryQueueItem(id, t, d, s, at, st, p) ==
  [id |-> id, target_filename |-> t, depth |-> d, source_article |-> s,
   discovered_at |-> at, status |-> st, priority |-> p]

\* rowid given by SQLite to a new row of an INTEGER PRIMARY KEY table
NextRowId(q) ==
  IF q = {} THEN 1
  ELSE (CHOOSE i \in {r.id : r \in q} : \A r \in q : r.id <= i) + 1

\* faulty variant: the INSERT is not rejected by the UNIQUE constraint
queueDiscoveredConceptNoUnique(q, t, d, s, p, at) ==
  [ok |-> TRUE,
   queue |-> q \cup {DiscoveryQueueItem(NextRowId(q), t, d, s, at, Pending, p)}]

queueDiscoveredConcept(q, t, d, s, p, at) ==
  IF \E r \in q : r.target_filename = t
  THEN [ok |-> FALSE, queue |-> q]
  ELSE [ok |-> TRUE,
        queue |-> q \cup {DiscoveryQueueItem(NextRowId(q), t, d, s, at, Pending, p)}]

\* ORDER BY priority DESC, depth ASC, discovered_at ASC
Precedes(r1, r2) ==
  \/ r1.priority > r2.priority
  \/ r1.priority = r2.priority /\ r1.depth < r2.depth
  \/ r1.priority = r2.priority /\ r1.depth = r2.depth
       /\ r1.discovered_at < r2.discovered_at

\* faulty variant: the WHERE clause does not test the status
getNextFromDiscoveryQueueAnyStatus(q, maxDepth) ==
  LET elig == {r \in q : r.depth <= maxDepth}
  IN  {r \in elig : \A o \in elig : ~Precedes(o, r)}

\* the rows LIMIT 1 may return: rows that tie in the ORDER BY are returned
\* in an order SQLite does not specify
getNextFromDiscoveryQueue(q, maxDepth) ==
  LET elig == {r \in q : r.status = Pending /\ r.depth <= maxDepth}
  IN  {r \in elig : \A o \in elig : ~Precedes(o, r)}

completeDiscoveryItem(q, t) ==
  {IF r.target_filename = t THEN [r EXCEPT !.status = Completed] ELSE r : r \in q}

markDiscoveryInProgress(q, t) ==
  {IF r.target_filename = t THEN [r EXCEPT !.status = InProgress] ELSE r : r \in q}

getArticleDepth(q, filename) ==
  IF \E r \in q : r.target_filename = filename
  THEN (CHOOSE r \in q : r.target_filename = filename).depth
  ELSE 0

\* faulty variant: the DELETE does not test the status
pruneCompletedDiscoveryItemsAnyStatus(q, daysOld, at) ==
  {r \in q : ~(r.discovered_at < at - daysOld)}

pruneCompletedDiscoveryItems(q, daysOld, at) ==
  {r \in q : ~(r.status = Completed /\ r.discovered_at < at - daysOld)}

-----------------------------------------------------------------------------
(* Discovery engine *)

calculatePriority(depth, referenceCount) ==
  Max(0, 100 - depth * 25) + Min(50, referenceCount * 10)

Concept(filename, depth, queued, reason) ==
  [filename |-> filename, depth |-> depth, queued |-> queued, reason |-> reason]

\* faulty variant: the loop does not test whether the article exists
discoverLinkNoExistsTest(q, files, source, newConceptDepth, link, max_depth, at) ==
  IF newConceptDepth > max_depth
  THEN [queue |-> q,
        concept |-> Concept(link, newConceptDepth, FALSE, "exceeds max depth")]
  ELSE LET res == queueDiscoveredConcept(q, link, newConceptDepth, source,
                                         calculatePriority(newConceptDepth, 1), at)
       IN  [queue |-> res.queue,
            concept |-> Concept(link, newConceptDepth, res.ok,
                                IF res.ok THEN "" ELSE "already in queue")]

\* faulty variant: the loop does not test the depth against max_depth
discoverLinkNoDepthTest(q, files, source, newConceptDepth, link, max_depth, at) ==
  IF link \in files
  THEN [queue |-> q,
        concept |-> Concept(link, newConceptDepth, FALSE, "already exists")]
  ELSE LET res == queueDiscoveredConcept(q, link, newConceptDepth, source,
                                         calculatePriority(newConceptDepth, 1), at)
       IN  [queue |-> res.queue,
            concept |-> Concept(link, newConceptDepth, res.ok,
                                IF res.ok THEN "" ELSE "already in queue")]

\* discoverConcepts: one iteration of the loop over the links (no
\* relevance_filter is given)
discoverLink(q, files, source, newConceptDepth, link, max_depth, at) ==
  IF link \in files
  THEN [queue |-> q,
        concept |-> Concept(link, newConceptDepth, FALSE, "already exists")]
  ELSE IF newConceptDepth > max_depth
  THEN [queue |-> q,
        concept |-> Concept(link, newConceptDepth, FALSE, "exceeds max depth")]
  ELSE LET res == queueDiscoveredConcept(q, link, newConceptDepth, source,
                                         calculatePriority(newConceptDepth, 1), at)
       IN  [queue |-> res.queue,
            concept |-> Concept(link, newConceptDepth, res.ok,
                                IF res.ok THEN "" ELSE "already in queue")]

RECURSIVE discoverLoop(_, _, _, _, _, _, _)
discoverLoop(q, files, source, newConceptDepth, ls, max_depth, at) ==
  IF ls = <<>>
  THEN [queue |-> q, concepts |-> <<>>]
  ELSE LET r == discoverLink(q, files, source, newConceptDepth, Head(ls), max_depth, at)
           rest == discoverLoop(r.queue, files, source, newConceptDepth, Tail(ls),
                                max_depth, at)
       IN  [queue |-> rest.queue, concepts |-> <<r.concept>> \o rest.concepts]

\* faulty variant: the new concepts get the depth of the source
discoverConceptsSourceDepth(q, files, source_article, max_depth, ls, at) ==
  LET sourceDepth == getArticleDepth(q, source_article)
      res == discoverLoop(q, files, source_article, sourceDepth, ls, max_depth, at)
  IN  [sourceArticle |-> source_article, sourceDepth |-> sourceDepth,
       maxDepth |-> max_depth, concepts |-> res.concepts, queue |-> res.queue]

\* discoverConcepts; ls are the links extractLinks returns, in their order
discoverConcepts(q, files, source_article, max_depth, ls, at) ==
  LET sourceDepth == getArticleDepth(q, source_article)
      newConceptDepth == sourceDepth + 1
      res == discoverLoop(q, files, source_article, newConceptDepth, ls, max_depth, at)
  IN  [sourceArticle |-> source_article, sourceDepth |-> sourceDepth,
       maxDepth |-> max_depth, concepts |-> res.concepts, queue |-> res.queue]

-----------------------------------------------------------------------------
(* Graph store: tables articles and links; task selector *)

ArticleNames(arts) == {a.filename : a \in arts}

\* links JOIN articles ON source_id, target NOT IN articles, GROUP BY target
getBrokenLinks(arts, lnks) ==
  LET joined == {l \in lnks : l.source \in ArticleNames(arts)}
  IN  {[target |-> t, sources |-> {l.source : l \in {x \in joined : x.target = t}}] :
         t \in {l.target : l \in joined} \ ArticleNames(arts)}

getOrphanArticles(arts) ==
  {a.filename : a \in {x \in arts : x.inlinks = 0 /\ x.filename # IndexFile}}

Task(type, prio, filename) ==
  [taskType |-> type, priority |-> prio, filename |-> filename]

NoTask == Task(None, None, None)

\* faulty variant: orphans are looked at before broken links
selectNextTaskOrphansFirst(q, arts, lnks, holders) ==
  LET broken == getBrokenLinks(arts, lnks)
      orphans == getOrphanArticles(arts)
  IN  IF orphans # {}
      THEN {Task("fix_orphan", "medium", f) : f \in orphans}
      ELSE IF broken # {}
      THEN {Task("repair_broken_link", "critical", b.target) : b \in broken}
      ELSE IF holders # {}
      THEN {Task("resolve_placeholder", "high", f) : f \in holders}
      ELSE {Task("create_new", "low", "to-be-determined.html")}

\* the tasks selectNextTask may return: secureRandomElement picks any element
\* of the array it is given; the discovery queue q is not read
selectNextTask(q, arts, lnks, holders) ==
  LET broken == getBrokenLinks(arts, lnks)
      orphans == getOrphanArticles(arts)
  IN  IF broken # {}
      THEN {Task("repair_broken_link", "critical", b.target) : b \in broken}
      ELSE IF holders # {}
      THEN {Task("resolve_placeholder", "high", f) : f \in holders}
      ELSE IF orphans # {}
      THEN {Task("fix_orphan", "medium", f) : f \in orphans}
      ELSE {Task("create_new", "low", "to-be-determined.html")}

-----------------------------------------------------------------------------
(* History kept for the properties *)

Bump(n) == IF n < 2 THEN n + 1 ELSE n

\* history after queueDiscoveredConcept(t, ...) returned ok
EnqHistory(t, ok) ==
  /\ enqTrue' = IF ok THEN [enqTrue EXCEPT ![t] = Bump(@)] ELSE enqTrue
  /\ enqFalse' = IF ok THEN enqFalse ELSE [enqFalse EXCEPT ![t] = TRUE]

\* history after rows were deleted: a deleted row has no history
PruneHistory(q) ==
  /\ enqTrue' = [t \in Files |->
                   IF \E r \in q : r.target_filename = t THEN enqTrue[t] ELSE 0]
  /\ enqFalse' = [t \in Files |->
                   IF \E r \in q : r.target_filename = t THEN enqFalse[t] ELSE FALSE]
  /\ claimCount' = [i \in DOMAIN claimCount |->
                   IF \E r \in q : r.id = i THEN claimCount[i] ELSE 0]

Idle == [state |-> "idle", id |-> 0, target |-> None, maxDepth |-> 0]
Empty(m) == [state |-> "empty", id |-> 0, target |-> None, maxDepth |-> m]
Read(r, m) == [state |-> "row", id |-> r.id, target |-> r.target_filename, maxDepth |-> m]

InitStore ==
  /\ queue = {}
  /\ now = 0
  /\ enqTrue = [t \in Files |-> 0]
  /\ enqFalse = [t \in Files |-> FALSE]
  /\ claimCount = [i \in 1..(MaxRows + 1) |-> 0]
  /\ sel = [w \in Workers |-> Idle]

InitWorkers ==
  /\ pc = [w \in Workers |-> "idle"]
  /\ task = [w \in Workers |-> NoTask]
  /\ newArticle = [w \in Workers |-> None]
  /\ discLinks = [w \in Workers |-> {}]
  /\ srcDepth = [w \in Workers |-> 0]
  /\ discRan = [w \in Workers |-> FALSE]
  /\ workerLoop = [w \in Workers |-> 0]
  /\ crashes = 0
  /\ taskLock = FALSE
  /\ wikiFiles = {IndexFile}

InitCoord ==
  /\ coord = "running"
  /\ coordLock = "main"
  /\ other = FALSE
  /\ doneMarker = [w \in Workers |-> FALSE]
  /\ live = [w \in Workers |-> 1]
  /\ iso = [w \in Workers |-> FALSE]
  /\ orphanIso = 0
  /\ copyLock = 0

NoResult ==
  [sourceArticle |-> None, sourceDepth |-> 0, maxDepth |-> 0, concepts |-> <<>>]

NoOp ==
  [op |-> None, source |-> None, targets |-> <<>>, n |-> 0, again |-> FALSE,
   ok |-> TRUE]

NoTx == [phase |-> "none", need |-> FALSE, articles |-> {}, links |-> {}]

InitDisc ==
  /\ discResult = NoResult
  /\ graphOp = NoOp
  /\ tx = NoTx
  /\ seen = [orphans |-> {}, n |-> 0, during |-> "none"]
  /\ loopFile = 0
  /\ loopLock = FALSE
  /\ waited = [w \in Workers |-> 0]
  /\ count = [w \in Workers |-> 0]
  /\ maxWritten = 0
  /\ iterations = 0
  /\ snapshot = [w \in Workers |-> {}]
  /\ isoFiles = [w \in Workers |-> {}]
  /\ produced = [w \in Workers |-> {}]

InitGraph ==
  /\ articles = {[filename |-> IndexFile, inlinks |-> 0]}
  /\ links = {}
  /\ placeholders = {}
  /\ selTask = NoTask

-----------------------------------------------------------------------------
(* SpecStore: the graph store under arbitrary calls of its queue functions *)

StoreDepths == {1, 2}
StorePriorities == {35, 60}
StoreMaxDepths == {1, MAX_DISCOVERY_DEPTH}
StoreDaysOld == {0, 1}
StoreCallers == {1}
StoreTargets == Files

\* a caller runs queueDiscoveredConcept(t, title, d, source, p)
StoreEnqueue(t, d, p) ==
  LET res == queueDiscoveredConcept(queue, t, d, None, p, now)
  IN  /\ NextRowId(queue) <= MaxRows
      /\ queue' = res.queue
      /\ EnqHistory(t, res.ok)
      /\ UNCHANGED <<now, claimCount, sel>>
      /\ UNCHANGED <<workerVars, graphVars, selTask>>
      /\ UNCHANGED coordVars
      /\ UNCHANGED <<discVars, txVars, snapVars, loopVars>>

\* caller c runs getNextFromDiscoveryQueue(m)
StoreSelect(c, m) ==
  LET rows == getNextFromDiscoveryQueue(queue, m)
  IN  /\ sel[c].state = "idle"
      /\ IF rows = {}
         THEN sel' = [sel EXCEPT ![c] = Empty(m)]
         ELSE \E r \in rows : sel' = [sel EXCEPT ![c] = Read(r, m)]
      /\ UNCHANGED <<queue, now, enqTrue, enqFalse, claimCount>>
      /\ UNCHANGED <<workerVars, graphVars, selTask>>
      /\ UNCHANGED coordVars
      /\ UNCHANGED <<discVars, txVars, snapVars, loopVars>>

\* caller c runs markDiscoveryInProgress on the row it read, and has the row
StoreMark(c) ==
  /\ sel[c].state = "row"
  /\ queue' = markDiscoveryInProgress(queue, sel[c].target)
  /\ sel' = [sel EXCEPT ![c] = Idle]
  /\ UNCHANGED <<now, enqTrue, enqFalse, claimCount>>
  /\ UNCHANGED <<workerVars, graphVars, selTask>>
  /\ UNCHANGED coordVars
  /\ UNCHANGED <<discVars, txVars, snapVars, loopVars>>

\* caller c was given no row
StoreNone(c) ==
  /\ sel[c].state = "empty"
  /\ sel' = [sel EXCEPT ![c] = Idle]
  /\ UNCHANGED <<queue, now, enqTrue, enqFalse, claimCount>>
  /\ UNCHANGED <<workerVars, graphVars, selTask>>
  /\ UNCHANGED coordVars
  /\ UNCHANGED <<discVars, txVars, snapVars, loopVars>>

\* a caller runs completeDiscoveryItem(t)
StoreComplete(t) ==
  /\ queue' = completeDiscoveryItem(queue, t)
  /\ queue' # queue
  /\ UNCHANGED <<now, enqTrue, enqFalse, claimCount, sel>>
  /\ UNCHANGED <<workerVars, graphVars, selTask>>
  /\ UNCHANGED coordVars
  /\ UNCHANGED <<discVars, txVars, snapVars, loopVars>>

\* record of a call pruneCompletedDiscoveryItems(d) that returned changes
Pruned(d, changes, n) ==
  [op |-> "pruneCompletedDiscoveryItems", daysOld |-> d, changes |-> changes, n |-> n]

\* a caller runs pruneCompletedDiscoveryItems(d); result.changes is the
\* number of rows the DELETE removed
StorePrune(d) ==
  /\ queue' = pruneCompletedDiscoveryItems(queue, d, now)
  /\ queue' # queue
  /\ PruneHistory(queue')
  /\ graphOp' = Pruned(d, Cardinality(queue) - Cardinality(queue'), 1 - graphOp.n)
  /\ UNCHANGED <<now, sel>>
  /\ UNCHANGED <<workerVars, graphVars, selTask>>
  /\ UNCHANGED coordVars
  /\ UNCHANGED <<discResult, txVars, snapVars, loopVars>>

\* time passes
Tick ==
  /\ now < MaxTime
  /\ now' = now + 1
  /\ UNCHANGED <<queue, enqTrue, enqFalse, claimCount, sel>>
  /\ UNCHANGED <<workerVars, graphVars, selTask>>
  /\ UNCHANGED coordVars
  /\ UNCHANGED <<discVars, txVars, snapVars, loopVars>>

InitStoreSpec == InitStore /\ InitWorkers /\ InitGraph /\ InitCoord /\ InitDisc

NextStore ==
  \/ \E t \in StoreTargets, d \in StoreDepths, p \in StorePriorities : StoreEnqueue(t, d, p)
  \/ \E c \in StoreCallers, m \in StoreMaxDepths : StoreSelect(c, m)
  \/ \E c \in StoreCallers : StoreMark(c)
  \/ \E c \in StoreCallers : StoreNone(c)
  \/ \E t \in StoreTargets : StoreComplete(t)
  \/ \E d \in StoreDaysOld : StorePrune(d)
  \/ Tick

SpecStore == InitStoreSpec /\ [][NextStore]_vars

-----------------------------------------------------------------------------
(* Properties of the graph store *)

LiveRows(t) ==
  {r \in queue : r.target_filename = t /\ r.status \in {Pending, InProgress}}

\* C2: of the queueDiscoveredConcept calls made for one target since the
\* table last held no row for it, exactly one returned true and every
\* other one returned false.
C2_ExactlyOneEnqueueSucceeds ==
  \A t \in Files : (enqTrue[t] > 0 \/ enqFalse[t]) => enqTrue[t] = 1

C2_Witness ==
  \E t \in Files : enqTrue[t] = 1 /\ enqFalse[t]

\* C3: every target has at most one discovery_queue row whose status is
\* pending or in_progress.
C3_AtMostOneLiveEntry ==
  \A t \in Files : Cardinality(LiveRows(t)) <= 1

C3_Witness ==
  \E t \in Files : enqFalse[t] /\ Cardinality(LiveRows(t)) = 1
                   /\ \E r \in queue : r.status = Completed

Eligible(q, m) == {r \in q : r.status = Pending /\ r.depth <= m}

\* C7: the row getNextFromDiscoveryQueue(m) returns is pending, has depth at
\* most m and no pending row of depth at most m comes before it in the
\* order priority descending, depth ascending, discovery time ascending;
\* it returns no row exactly when there is no pending row of depth at most m.
C7_ClaimReturnsFirstPending ==
  [][\A c \in Workers :
       (sel[c].state = "idle" /\ sel'[c].state # "idle") =>
          LET m == sel'[c].maxDepth
          IN  /\ (sel'[c].state = "empty") <=> (Eligible(queue, m) = {})
              /\ sel'[c].state = "row" =>
                   \E r \in queue :
                     /\ r.id = sel'[c].id
                     /\ r.target_filename = sel'[c].target
                     /\ r.status = Pending
                     /\ r.depth <= m
                     /\ \A o \in Eligible(queue, m) :
                          /\ o.priority <= r.priority
                          /\ o.priority = r.priority => o.depth >= r.depth
                          /\ (o.priority = r.priority /\ o.depth = r.depth)
                               => o.discovered_at >= r.discovered_at]_vars

\* a caller has read a pending row while the table holds an in_progress row
\* of higher priority
C7_Witness ==
  \E c \in Workers :
    /\ sel[c].state = "row"
    /\ \E r \in queue : r.id = sel[c].id /\ r.status = Pending
         /\ \E o \in queue : o.status = InProgress /\ o.priority > r.priority

-----------------------------------------------------------------------------
(* SpecSel: the task selector over the graphs the store functions build *)

SelFiles == {IndexFile, "a.html", "b.html", "c.html"}
LinkSources == {IndexFile, "a.html"}
LinkTargets == {"a.html", "b.html", "c.html"}
MaxLinks == 3
MaxPlaceholders == 1

\* the queue contents the selector is run against
SelQueues ==
  { {},
    {DiscoveryQueueItem(1, "b.html", 1, IndexFile, 0, Pending, 85)},
    {DiscoveryQueueItem(1, "b.html", 1, IndexFile, 0, InProgress, 85)},
    {DiscoveryQueueItem(1, "b.html", 4, IndexFile, 0, Pending, 10)} }

\* faulty variant: INSERT OR REPLACE, the row of a taken filename is replaced
insertArticleOrReplace(arts, filename, inlinks) ==
  [ok |-> TRUE,
   articles |-> {a \in arts : a.filename # filename}
                  \cup {[filename |-> filename, inlinks |-> inlinks]}]

\* INSERT INTO articles; filename is UNIQUE
insertArticle(arts, filename, inlinks) ==
  IF filename \in ArticleNames(arts)
  THEN [ok |-> FALSE, articles |-> arts]
  ELSE [ok |-> TRUE,
        articles |-> arts \cup {[filename |-> filename, inlinks |-> inlinks]}]

\* INSERT OR IGNORE INTO links
insertLink(lnks, source, target) ==
  lnks \cup {[source |-> source, target |-> target]}

InsertArticle(f, n) ==
  /\ articles' = insertArticle(articles, f, n).articles
  /\ selTask' = NoTask
  /\ UNCHANGED <<links, placeholders>>
  /\ UNCHANGED <<storeVars, workerVars>>
  /\ UNCHANGED coordVars
  /\ UNCHANGED <<discVars, txVars, snapVars, loopVars>>

InsertLink(s, t) ==
  /\ s \in ArticleNames(articles)
  /\ Cardinality(insertLink(links, s, t)) <= MaxLinks
  /\ links' = insertLink(links, s, t)
  /\ selTask' = NoTask
  /\ UNCHANGED <<articles, placeholders>>
  /\ UNCHANGED <<storeVars, workerVars>>
  /\ UNCHANGED coordVars
  /\ UNCHANGED <<discVars, txVars, snapVars, loopVars>>

\* a file of WIKI_DIR is written with NEXT_PAGE_PLACEHOLDER in its content
WritePlaceholder(f) ==
  /\ Cardinality(placeholders \cup {f}) <= MaxPlaceholders
  /\ placeholders' = placeholders \cup {f}
  /\ selTask' = NoTask
  /\ UNCHANGED <<articles, links>>
  /\ UNCHANGED <<storeVars, workerVars>>
  /\ UNCHANGED coordVars
  /\ UNCHANGED <<discVars, txVars, snapVars, loopVars>>

\* the wiki_next_task handler runs selectNextTask
SelectNextTask ==
  /\ selTask' \in selectNextTask(queue, articles, links, placeholders)
  /\ UNCHANGED <<articles, links, placeholders>>
  /\ UNCHANGED <<storeVars, workerVars>>
  /\ UNCHANGED coordVars
  /\ UNCHANGED <<discVars, txVars, snapVars, loopVars>>

InitSel ==
  /\ queue \in SelQueues
  /\ now = 0
  /\ enqTrue = [t \in Files |-> 0]
  /\ enqFalse = [t \in Files |-> FALSE]
  /\ claimCount = [i \in 1..(MaxRows + 1) |-> 0]
  /\ sel = [w \in Workers |-> Idle]
  /\ InitWorkers
  /\ InitCoord
  /\ InitDisc
  /\ articles = {}
  /\ links = {}
  /\ placeholders = {}
  /\ selTask = NoTask

NextSel ==
  \/ \E f \in SelFiles, n \in 0..MaxInlinks : InsertArticle(f, n)
  \/ \E s \in LinkSources, t \in LinkTargets : InsertLink(s, t)
  \/ \E f \in SelFiles : WritePlaceholder(f)
  \/ SelectNextTask

SpecSel == InitSel /\ [][NextSel]_vars

-----------------------------------------------------------------------------
(* Properties of the task selector *)

BrokenTargets == {l.target : l \in links} \ ArticleNames(articles)
SourcesOf(t) == {l.source : l \in {x \in links : x.target = t}}
OrphanNodes == getOrphanArticles(articles)
PendingWithinDepth == Eligible(queue, MAX_DISCOVERY_DEPTH)

\* C4: when the table holds a pending row within the max depth and a broken
\* link exists, the selected task is the task for a pending row and not the
\* repair_broken_link task.
C4_FrontierBeforeBrokenLink ==
  (selTask # NoTask /\ PendingWithinDepth # {} /\ BrokenTargets # {}) =>
     /\ selTask.taskType # "repair_broken_link"
     /\ selTask.filename \in {r.target_filename : r \in PendingWithinDepth}

C6_MostReferencedBrokenLink ==
  selTask.taskType = "repair_broken_link" =>
    \A t \in BrokenTargets :
      Cardinality(SourcesOf(t)) <= Cardinality(SourcesOf(selTask.filename))

-----------------------------------------------------------------------------
(* Spec: the parallel workers of the coordinator script over the store *)

MAX_LOOPS_PER_WORKER == MaxLoops

\* task handed out for a row of the discovery queue
FrontierTask(t) == Task("expand_frontier", "high", t)

\* run_worker, top of the loop: ((worker_loop++))
LoopTop(w) ==
  /\ pc[w] = "idle"
  /\ workerLoop[w] <= MaxLoops
  /\ workerLoop' = [workerLoop EXCEPT ![w] = @ + 1]
  /\ discRan' = [discRan EXCEPT ![w] = FALSE]
  /\ newArticle' = [newArticle EXCEPT ![w] = None]
  /\ task' = [task EXCEPT ![w] = NoTask]
  /\ pc' = [pc EXCEPT ![w] = "fetch"]
  /\ UNCHANGED <<discLinks, srcDepth, crashes, taskLock, wikiFiles>>
  /\ UNCHANGED <<storeVars, graphVars, selTask>>
  /\ UNCHANGED coordVars
  /\ UNCHANGED <<discVars, txVars, snapVars, loopVars>>

\* acquire_file_lock: mkdir succeeds when the lock directory does not exist
acquire_file_lock(lock) == ~lock

\* fetch_task: acquire_file_lock "${TASK_LOCK}.dir" succeeds
AcquireTaskLock(w) ==
  /\ pc[w] = "fetch"
  /\ acquire_file_lock(taskLock)
  /\ taskLock' = TRUE
  /\ pc' = [pc EXCEPT ![w] = "select"]
  /\ UNCHANGED <<task, newArticle, discLinks, srcDepth, discRan, workerLoop,
                 crashes, wikiFiles>>
  /\ UNCHANGED <<storeVars, graphVars, selTask>>
  /\ UNCHANGED coordVars
  /\ UNCHANGED <<discVars, txVars, snapVars, loopVars>>

\* fetch_task: the lock is not obtained within the timeout; run_worker
\* sleeps and continues with the next iteration
TaskLockTimeout(w) ==
  /\ pc[w] = "fetch"
  /\ ~acquire_file_lock(taskLock)
  /\ pc' = [pc EXCEPT ![w] = "idle"]
  /\ UNCHANGED <<task, newArticle, discLinks, srcDepth, discRan, workerLoop,
                 crashes, taskLock, wikiFiles>>
  /\ UNCHANGED <<storeVars, graphVars, selTask>>
  /\ UNCHANGED coordVars
  /\ UNCHANGED <<discVars, txVars, snapVars, loopVars>>

\* the selector reads the next pending row of the discovery queue
FetchSelect(w) ==
  LET rows == getNextFromDiscoveryQueue(queue, MAX_DISCOVERY_DEPTH)
  IN  /\ pc[w] = "select"
      /\ IF rows = {}
         THEN /\ sel' = [sel EXCEPT ![w] = Empty(MAX_DISCOVERY_DEPTH)]
              /\ pc' = [pc EXCEPT ![w] = "choose"]
         ELSE /\ \E r \in rows : sel' = [sel EXCEPT ![w] = Read(r, MAX_DISCOVERY_DEPTH)]
              /\ pc' = [pc EXCEPT ![w] = "mark"]
      /\ UNCHANGED <<queue, now, enqTrue, enqFalse, claimCount>>
      /\ UNCHANGED <<task, newArticle, discLinks, srcDepth, discRan, workerLoop,
                     crashes, taskLock, wikiFiles>>
      /\ UNCHANGED <<graphVars, selTask>>
      /\ UNCHANGED coordVars
      /\ UNCHANGED <<discVars, txVars, snapVars, loopVars>>

\* the selector marks the row it read and returns it as the task
FetchMark(w) ==
  /\ pc[w] = "mark"
  /\ queue' = markDiscoveryInProgress(queue, sel[w].target)
  /\ claimCount' = [claimCount EXCEPT ![sel[w].id] = Bump(@)]
  /\ task' = [task EXCEPT ![w] = FrontierTask(sel[w].target)]
  /\ pc' = [pc EXCEPT ![w] = "release"]
  /\ UNCHANGED <<now, enqTrue, enqFalse, sel>>
  /\ UNCHANGED <<newArticle, discLinks, srcDepth, discRan, workerLoop,
                 crashes, taskLock, wikiFiles>>
  /\ UNCHANGED <<graphVars, selTask>>
  /\ UNCHANGED coordVars
  /\ UNCHANGED <<discVars, txVars, snapVars, loopVars>>

\* no pending row: the task is the one selectNextTask returns
FetchTask(w) ==
  /\ pc[w] = "choose"
  /\ \E t \in selectNextTask(queue, articles, links, placeholders) :
       task' = [task EXCEPT ![w] = t]
  /\ pc' = [pc EXCEPT ![w] = "release"]
  /\ UNCHANGED <<newArticle, discLinks, srcDepth, discRan, workerLoop,
                 crashes, taskLock, wikiFiles>>
  /\ UNCHANGED <<storeVars, graphVars, selTask>>
  /\ UNCHANGED coordVars
  /\ UNCHANGED <<discVars, txVars, snapVars, loopVars>>

\* fetch_task: release_file_lock, then the task is returned, or the output
\* of the tool is empty or not JSON and run_worker retries
ReleaseTaskLock(w) ==
  /\ pc[w] = "release"
  /\ taskLock' = FALSE
  /\ sel' = [sel EXCEPT ![w] = Idle]
  /\ \/ /\ pc' = [pc EXCEPT ![w] = "agent"]
        /\ task' = task
     \/ /\ pc' = [pc EXCEPT ![w] = "idle"]
        /\ task' = [task EXCEPT ![w] = NoTask]
  /\ UNCHANGED <<queue, now, enqTrue, enqFalse, claimCount>>
  /\ UNCHANGED <<newArticle, discLinks, srcDepth, discRan, workerLoop,
                 crashes, wikiFiles>>
  /\ UNCHANGED <<graphVars, selTask>>
  /\ UNCHANGED coordVars
  /\ UNCHANGED <<discVars, txVars, snapVars, loopVars>>

\* run_worker: setup_isolation makes the isolation directory, or fails and
\* the worker continues with the next iteration
SetupIsolation(w) ==
  /\ pc[w] = "agent"
  /\ \/ /\ iso' = [iso EXCEPT ![w] = TRUE]
        /\ pc' = [pc EXCEPT ![w] = "running"]
        /\ task' = task
     \/ /\ iso' = iso
        /\ pc' = [pc EXCEPT ![w] = "idle"]
        /\ task' = [task EXCEPT ![w] = NoTask]
  /\ UNCHANGED <<newArticle, discLinks, srcDepth, discRan, workerLoop, crashes,
                 taskLock, wikiFiles>>
  /\ UNCHANGED <<storeVars, graphVars, selTask>>
  /\ UNCHANGED <<coord, coordLock, other, doneMarker, live, orphanIso, copyLock>>
  /\ UNCHANGED <<discVars, txVars, snapVars, loopVars>>

\* faulty variant: the isolation directory is removed only when a new
\* article was detected
RunAgentKeepsIsolation(w, n) ==
  /\ pc[w] = "running"
  /\ n \in (Files \ wikiFiles) \cup {None}
  /\ newArticle' = [newArticle EXCEPT ![w] = n]
  /\ wikiFiles' = IF n = None THEN wikiFiles ELSE wikiFiles \cup {n}
  /\ iso' = IF n = None THEN iso ELSE [iso EXCEPT ![w] = FALSE]
  /\ pc' = [pc EXCEPT ![w] = IF n = None THEN "loop_end" ELSE "discover"]
  /\ UNCHANGED <<task, discLinks, srcDepth, discRan, workerLoop, crashes, taskLock>>
  /\ UNCHANGED <<storeVars, graphVars, selTask>>
  /\ UNCHANGED <<coord, coordLock, other, doneMarker, live, orphanIso, copyLock>>
  /\ UNCHANGED <<discVars, txVars, snapVars, loopVars>>

\* run_worker: the agent has run in isolation; n is the new article detected
\* afterwards, None when the agent failed or wrote no new file; the
\* isolation directory is removed
RunAgent(w, n) ==
  /\ pc[w] = "running"
  /\ n \in (Files \ wikiFiles) \cup {None}
  /\ newArticle' = [newArticle EXCEPT ![w] = n]
  /\ wikiFiles' = IF n = None THEN wikiFiles ELSE wikiFiles \cup {n}
  /\ iso' = [iso EXCEPT ![w] = FALSE]
  /\ pc' = [pc EXCEPT ![w] = IF n = None THEN "loop_end" ELSE "discover"]
  /\ UNCHANGED <<task, discLinks, srcDepth, discRan, workerLoop, crashes, taskLock>>
  /\ UNCHANGED <<storeVars, graphVars, selTask>>
  /\ UNCHANGED <<coord, coordLock, other, doneMarker, live, orphanIso, copyLock>>
  /\ UNCHANGED <<discVars, txVars, snapVars, loopVars>>

\* run_discovery: the task lock is obtained; discoverConcepts reads the
\* depth of the source and the links of the new article
DiscoveryAcquire(w, ls) ==
  /\ pc[w] = "discover"
  /\ acquire_file_lock(taskLock)
  /\ taskLock' = TRUE
  /\ ls \subseteq (Files \ {newArticle[w]})
  /\ discLinks' = [discLinks EXCEPT ![w] = ls]
  /\ srcDepth' = [srcDepth EXCEPT ![w] = getArticleDepth(queue, newArticle[w])]
  /\ pc' = [pc EXCEPT ![w] = "discovering"]
  /\ UNCHANGED <<task, newArticle, discRan, workerLoop, crashes, wikiFiles>>
  /\ UNCHANGED <<storeVars, graphVars, selTask>>
  /\ UNCHANGED coordVars
  /\ UNCHANGED <<discVars, txVars, snapVars, loopVars>>

\* run_discovery: the task lock is busy and discovery is skipped
DiscoverySkip(w) ==
  /\ pc[w] = "discover"
  /\ ~acquire_file_lock(taskLock)
  /\ pc' = [pc EXCEPT ![w] = "loop_end"]
  /\ UNCHANGED <<task, newArticle, discLinks, srcDepth, discRan, workerLoop,
                 crashes, taskLock, wikiFiles>>
  /\ UNCHANGED <<storeVars, graphVars, selTask>>
  /\ UNCHANGED coordVars
  /\ UNCHANGED <<discVars, txVars, snapVars, loopVars>>

\* discoverConcepts: one iteration of the loop over the links
DiscoverLink(w, l) ==
  LET res == discoverLink(queue, wikiFiles, newArticle[w], srcDepth[w] + 1, l,
                          MAX_DISCOVERY_DEPTH, now)
  IN  /\ pc[w] = "discovering"
      /\ l \in discLinks[w]
      /\ discLinks' = [discLinks EXCEPT ![w] = @ \ {l}]
      /\ IF res.concept.reason \in {"already exists", "exceeds max depth"}
         THEN UNCHANGED <<queue, enqTrue, enqFalse>>
         ELSE /\ NextRowId(queue) <= MaxRows
              /\ queue' = res.queue
              /\ EnqHistory(l, res.concept.queued)
      /\ UNCHANGED <<now, claimCount, sel>>
      /\ UNCHANGED <<pc, task, newArticle, srcDepth, discRan, workerLoop,
                     crashes, taskLock, wikiFiles>>
      /\ UNCHANGED <<graphVars, selTask>>
      /\ UNCHANGED coordVars
      /\ UNCHANGED <<discVars, txVars, snapVars, loopVars>>

\* run_discovery: the tool has returned; release_file_lock
DiscoveryRelease(w) ==
  /\ pc[w] = "discovering"
  /\ discLinks[w] = {}
  /\ taskLock' = FALSE
  /\ discRan' = [discRan EXCEPT ![w] = TRUE]
  /\ pc' = [pc EXCEPT ![w] = "loop_end"]
  /\ UNCHANGED <<task, newArticle, discLinks, srcDepth, workerLoop, crashes, wikiFiles>>
  /\ UNCHANGED <<storeVars, graphVars, selTask>>
  /\ UNCHANGED coordVars
  /\ UNCHANGED <<discVars, txVars, snapVars, loopVars>>

\* run_worker: check of the loop limit at the end of an iteration; at the
\* limit the done marker is written and the process ends
LoopEnd(w) ==
  LET atLimit == MAX_LOOPS_PER_WORKER > 0 /\ workerLoop[w] >= MAX_LOOPS_PER_WORKER
  IN  /\ pc[w] = "loop_end"
      /\ pc' = [pc EXCEPT ![w] = IF atLimit THEN "done" ELSE "idle"]
      /\ doneMarker' = IF atLimit THEN [doneMarker EXCEPT ![w] = TRUE] ELSE doneMarker
      /\ live' = IF atLimit THEN [live EXCEPT ![w] = @ - 1] ELSE live
      /\ UNCHANGED <<task, newArticle, discLinks, srcDepth, discRan, workerLoop,
                     crashes, taskLock, wikiFiles>>
      /\ UNCHANGED <<storeVars, graphVars, selTask>>
      /\ UNCHANGED <<coord, coordLock, other, iso, orphanIso, copyLock>>
      /\ UNCHANGED <<discVars, txVars, snapVars, loopVars>>

\* faulty variant: the death of a worker makes the coordinator shut down
CrashEndsCoordinator(w) ==
  /\ pc[w] \notin {"dead", "done", "stopped"}
  /\ crashes < MaxCrashes
  /\ crashes' = crashes + 1
  /\ pc' = [pc EXCEPT ![w] = "dead"]
  /\ sel' = [sel EXCEPT ![w] = Idle]
  /\ task' = [task EXCEPT ![w] = NoTask]
  /\ newArticle' = [newArticle EXCEPT ![w] = None]
  /\ discLinks' = [discLinks EXCEPT ![w] = {}]
  /\ srcDepth' = [srcDepth EXCEPT ![w] = 0]
  /\ discRan' = [discRan EXCEPT ![w] = FALSE]
  /\ live' = [live EXCEPT ![w] = @ - 1]
  /\ iso' = [iso EXCEPT ![w] = FALSE]
  /\ orphanIso' = IF iso[w] THEN orphanIso + 1 ELSE orphanIso
  /\ UNCHANGED <<workerLoop, taskLock, wikiFiles>>
  /\ UNCHANGED <<queue, now, enqTrue, enqFalse, claimCount>>
  /\ UNCHANGED <<graphVars, selTask>>
  /\ coord' = "stopping"
  /\ UNCHANGED <<coordLock, other, doneMarker, copyLock>>
  /\ waited' = [waited EXCEPT ![w] = 0]
  /\ count' = [count EXCEPT ![w] = 0]
  /\ UNCHANGED <<discVars, txVars, snapVars>>
  /\ UNCHANGED <<loopFile, loopLock, maxWritten, iterations>>

\* the process of worker w dies; what it held in memory is gone, what it
\* left on disk and in the database stays
Crash(w) ==
  /\ pc[w] \notin {"dead", "done", "stopped"}
  /\ crashes < MaxCrashes
  /\ crashes' = crashes + 1
  /\ pc' = [pc EXCEPT ![w] = "dead"]
  /\ sel' = [sel EXCEPT ![w] = Idle]
  /\ task' = [task EXCEPT ![w] = NoTask]
  /\ newArticle' = [newArticle EXCEPT ![w] = None]
  /\ discLinks' = [discLinks EXCEPT ![w] = {}]
  /\ srcDepth' = [srcDepth EXCEPT ![w] = 0]
  /\ discRan' = [discRan EXCEPT ![w] = FALSE]
  /\ live' = [live EXCEPT ![w] = @ - 1]
  /\ iso' = [iso EXCEPT ![w] = FALSE]
  /\ orphanIso' = IF iso[w] THEN orphanIso + 1 ELSE orphanIso
  /\ UNCHANGED <<workerLoop, taskLock, wikiFiles>>
  /\ UNCHANGED <<queue, now, enqTrue, enqFalse, claimCount>>
  /\ UNCHANGED <<graphVars, selTask>>
  /\ UNCHANGED <<coord, coordLock, other, doneMarker, copyLock>>
  /\ waited' = [waited EXCEPT ![w] = 0]
  /\ count' = [count EXCEPT ![w] = 0]
  /\ UNCHANGED <<discVars, txVars, snapVars>>
  /\ UNCHANGED <<loopFile, loopLock, maxWritten, iterations>>

\* faulty variant: the restart puts the rows that are in_progress back to pending
RestartRequeuesClaims(w) ==
  /\ coord = "running"
  /\ pc[w] \in {"dead", "done"}
  /\ ~doneMarker[w]
  /\ pc' = [pc EXCEPT ![w] = "idle"]
  /\ workerLoop' = [workerLoop EXCEPT ![w] = 0]
  /\ live' = [live EXCEPT ![w] = @ + 1]
  /\ queue' = {IF r.status = InProgress THEN [r EXCEPT !.status = Pending] ELSE r :
                 r \in queue}
  /\ UNCHANGED <<task, newArticle, discLinks, srcDepth, discRan, crashes,
                 taskLock, wikiFiles>>
  /\ UNCHANGED <<now, enqTrue, enqFalse, claimCount, sel, graphVars, selTask>>
  /\ UNCHANGED <<coord, coordLock, other, doneMarker, iso, orphanIso, copyLock>>
  /\ UNCHANGED <<discVars, txVars, snapVars, loopVars>>

\* faulty variant: run_worker is started again although the process lives
RestartLiveWorker(w) ==
  /\ coord = "running"
  /\ ~doneMarker[w]
  /\ pc' = [pc EXCEPT ![w] = "idle"]
  /\ workerLoop' = [workerLoop EXCEPT ![w] = 0]
  /\ live' = [live EXCEPT ![w] = IF @ < 2 THEN @ + 1 ELSE @]
  /\ UNCHANGED <<task, newArticle, discLinks, srcDepth, discRan, crashes,
                 taskLock, wikiFiles>>
  /\ UNCHANGED <<storeVars, graphVars, selTask>>
  /\ UNCHANGED <<coord, coordLock, other, doneMarker, iso, orphanIso, copyLock>>
  /\ UNCHANGED <<discVars, txVars, snapVars, loopVars>>

\* monitor loop: worker w has no done marker and its process is gone;
\* run_worker is started again with the same worker id
Restart(w) ==
  /\ coord = "running"
  /\ pc[w] \in {"dead", "done"}
  /\ ~doneMarker[w]
  /\ pc' = [pc EXCEPT ![w] = "idle"]
  /\ workerLoop' = [workerLoop EXCEPT ![w] = 0]
  /\ live' = [live EXCEPT ![w] = @ + 1]
  /\ UNCHANGED <<task, newArticle, discLinks, srcDepth, discRan, crashes,
                 taskLock, wikiFiles>>
  /\ UNCHANGED <<storeVars, graphVars, selTask>>
  /\ UNCHANGED <<coord, coordLock, other, doneMarker, iso, orphanIso, copyLock>>
  /\ UNCHANGED <<discVars, txVars, snapVars, loopVars>>

\* cleanup: the lock directories of the task and copy locks, the loop count
\* file, the done markers and the pid file are removed, whichever process
\* made them
cleanup ==
  /\ taskLock' = FALSE
  /\ copyLock' = 0
  /\ loopFile' = -1
  /\ doneMarker' = [w \in Workers |-> FALSE]
  /\ coordLock' = "none"

\* the instance whose pid the file $COORDINATOR_LOCK holds is running
HolderRuns ==
  \/ coordLock = "main" /\ coord # "exited"
  \/ coordLock = "other" /\ other

\* the script is started while a coordinator runs: acquire_coordinator_lock
\* exits, and the EXIT trap runs cleanup
RejectedStart ==
  /\ HolderRuns
  /\ cleanup
  /\ UNCHANGED <<pc, task, newArticle, discLinks, srcDepth, discRan, workerLoop,
                 crashes, wikiFiles>>
  /\ UNCHANGED <<storeVars, graphVars, selTask>>
  /\ UNCHANGED <<coord, other, live, iso, orphanIso>>
  /\ UNCHANGED <<discVars, txVars, snapVars>>
  /\ UNCHANGED <<loopLock, waited, count, maxWritten, iterations>>

\* the script is started and finds no pid file: it writes its pid, writes 0
\* to $GLOBAL_LOOP_COUNT and spawns workers 1..PARALLEL_WORKERS of its own
OtherStart ==
  /\ coordLock = "none"
  /\ ~other
  /\ coordLock' = "other"
  /\ other' = TRUE
  /\ live' = [w \in Workers |-> live[w] + 1]
  /\ UNCHANGED <<workerVars, storeVars, graphVars, selTask>>
  /\ UNCHANGED <<coord, doneMarker, iso, orphanIso, copyLock>>
  /\ loopFile' = 0
  /\ UNCHANGED <<discVars, txVars, snapVars>>
  /\ UNCHANGED <<loopLock, waited, count, maxWritten, iterations>>

\* SIGINT or SIGTERM reaches the coordinator: cleanup begins to stop the workers
Signal ==
  /\ coord = "running"
  /\ coord' = "stopping"
  /\ UNCHANGED <<workerVars, storeVars, graphVars, selTask>>
  /\ UNCHANGED <<coordLock, other, doneMarker, live, iso, orphanIso, copyLock>>
  /\ UNCHANGED <<discVars, txVars, snapVars, loopVars>>

\* cleanup: kill and wait for worker w. The worker finishes the command it
\* is in; worker_cleanup then removes its isolation directory and exits.
\* n is the file the agent still wrote, None when it wrote nothing
WorkerStop(w, n) ==
  /\ coord = "stopping"
  /\ \/ pc[w] \in {"idle", "agent", "discover", "loop_end"} /\ n = None
     \/ pc[w] = "running" /\ n \in (Files \ wikiFiles) \cup {None}
     \/ pc[w] = "discovering" /\ discLinks[w] = {} /\ n = None
  /\ pc' = [pc EXCEPT ![w] = "stopped"]
  /\ wikiFiles' = IF n = None THEN wikiFiles ELSE wikiFiles \cup {n}
  /\ iso' = [iso EXCEPT ![w] = FALSE]
  /\ live' = [live EXCEPT ![w] = @ - 1]
  /\ UNCHANGED <<task, newArticle, discLinks, srcDepth, discRan, workerLoop,
                 crashes, taskLock>>
  /\ UNCHANGED <<storeVars, graphVars, selTask>>
  /\ UNCHANGED <<coord, coordLock, other, doneMarker, orphanIso, copyLock>>
  /\ UNCHANGED <<discVars, txVars, snapVars, loopVars>>

\* the coordinator exits: after the signal when every worker process is
\* gone, or from the monitor loop when every worker has a done marker; the
\* EXIT trap runs cleanup
CoordExit ==
  /\ \/ coord = "stopping" /\ \A w \in Workers : pc[w] \in {"stopped", "dead", "done"}
     \/ coord = "running" /\ \A w \in Workers : doneMarker[w]
  /\ coord' = "exited"
  /\ cleanup
  /\ UNCHANGED <<pc, task, newArticle, discLinks, srcDepth, discRan, workerLoop,
                 crashes, wikiFiles>>
  /\ UNCHANGED <<storeVars, graphVars, selTask>>
  /\ UNCHANGED <<other, live, iso, orphanIso>>
  /\ UNCHANGED <<discVars, txVars, snapVars>>
  /\ UNCHANGED <<loopLock, waited, count, maxWritten, iterations>>

\* the database the workers run against: index.html links to b.html, which
\* has no article row
Init ==
  /\ InitStore
  /\ InitWorkers
  /\ InitCoord
  /\ InitDisc
  /\ articles = {[filename |-> IndexFile, inlinks |-> 0]}
  /\ links = {[source |-> IndexFile, target |-> "b.html"]}
  /\ placeholders = {}
  /\ selTask = NoTask

Next ==
  \/ \E w \in Workers : LoopTop(w)
  \/ \E w \in Workers : AcquireTaskLock(w)
  \/ \E w \in Workers : TaskLockTimeout(w)
  \/ \E w \in Workers : FetchSelect(w)
  \/ \E w \in Workers : FetchMark(w)
  \/ \E w \in Workers : FetchTask(w)
  \/ \E w \in Workers : ReleaseTaskLock(w)
  \/ \E w \in Workers : SetupIsolation(w)
  \/ \E w \in Workers, n \in Files \cup {None} : RunAgent(w, n)
  \/ \E w \in Workers, ls \in SUBSET Files : DiscoveryAcquire(w, ls)
  \/ \E w \in Workers : DiscoverySkip(w)
  \/ \E w \in Workers, l \in Files : DiscoverLink(w, l)
  \/ \E w \in Workers : DiscoveryRelease(w)
  \/ \E w \in Workers : LoopEnd(w)
  \/ \E w \in Workers : Crash(w)
  \/ \E w \in Workers : Restart(w)
  \/ RejectedStart
  \/ \E t \in Files : StoreComplete(t)

Spec == Init /\ [][Next]_vars

-----------------------------------------------------------------------------
(* SpecCoord: the coordinator, its workers and further starts of the       *)
(* script, with agents that write articles without links                   *)

NextCoord ==
  \/ \E w \in Workers : LoopTop(w)
  \/ \E w \in Workers : AcquireTaskLock(w)
  \/ \E w \in Workers : TaskLockTimeout(w)
  \/ \E w \in Workers : FetchSelect(w)
  \/ \E w \in Workers : FetchTask(w)
  \/ \E w \in Workers : ReleaseTaskLock(w)
  \/ \E w \in Workers : SetupIsolation(w)
  \/ \E w \in Workers, n \in Files \cup {None} : RunAgent(w, n)
  \/ \E w \in Workers : DiscoveryAcquire(w, {})
  \/ \E w \in Workers : DiscoverySkip(w)
  \/ \E w \in Workers : DiscoveryRelease(w)
  \/ \E w \in Workers : LoopEnd(w)
  \/ \E w \in Workers : Crash(w)
  \/ \E w \in Workers : Restart(w)
  \/ RejectedStart
  \/ OtherStart
  \/ Signal
  \/ \E w \in Workers, n \in Files \cup {None} : WorkerStop(w, n)
  \/ CoordExit

SpecCoord == Init /\ [][NextCoord]_vars

-----------------------------------------------------------------------------
(* Properties of the workers *)

\* C1: no row of the discovery queue is handed out to more than one caller.
C1_ClaimHandsOutOnce ==
  \A i \in DOMAIN claimCount : claimCount[i] <= 1

StatusRank(st) == IF st = Pending THEN 0 ELSE IF st = InProgress THEN 1 ELSE 2

\* C8: in every step the status of every row stays or moves forward along
\* pending, in_progress, completed.
C8_StatusMovesForward ==
  [][\A r \in queue : \A r2 \in queue' :
       r2.id = r.id => StatusRank(r2.status) >= StatusRank(r.status)]_vars

\* worker w fails in this step: its process dies, it is started again, or
\* its agent run ends without a new article
FailureStep(w) ==
  \/ pc[w] # "dead" /\ pc'[w] = "dead"
  \/ pc[w] = "dead" /\ pc'[w] # "dead"
  \/ pc[w] = "running" /\ pc'[w] = "loop_end"
  \/ pc[w] = "agent" /\ pc'[w] = "idle"

C10_SuccessfulEntryCompleted ==
  \A w \in Workers :
    (/\ pc[w] \in {"idle", "done"}
     /\ task[w].taskType = "expand_frontier"
     /\ newArticle[w] = task[w].filename
     /\ discRan[w])
    => \E r \in queue : r.target_filename = task[w].filename /\ r.status = Completed

-----------------------------------------------------------------------------
(* Properties of the coordinator *)

\* C11: at no time do two live worker processes have the same worker id
\* (a dead worker is replaced by one process with its id, never by more).
C11_OneLiveWorkerPerIdentity ==
  \A w \in Workers : live[w] <= 1

\* C12: a worker that ends at its loop limit has its done marker written
\* when its process ends, and from then on it is never started again.
C12_CompletedWorkerNotRestarted ==
  [][\A w \in Workers :
       /\ (pc[w] = "loop_end" /\ pc'[w] = "done") => doneMarker'[w]
       /\ pc[w] = "done" => pc'[w] = "done"]_vars

\* C13: when the coordinator exits after a shutdown signal, every worker
\* process has stopped, the task lock directory is gone and no isolation
\* directory is left.
C13_ShutdownLeavesNothing ==
  [][(coord = "stopping" /\ coord' = "exited") =>
       /\ \A w \in Workers : pc'[w] \in {"stopped", "dead", "done"}
       /\ ~taskLock'
       /\ \A w \in Workers : ~iso'[w]
       /\ orphanIso' = 0]_vars

-----------------------------------------------------------------------------
(* SpecDisc: the wiki_discover tool over the articles agents write *)

DiscSources == DiscFiles \cup {IndexFile}
\* the max_depth the tool is called with
DiscMaxDepths == {MaxDiscDepth}

\* what extractLinks may return: hrefs without duplicates, in document order
DiscLinkSeqs ==
  {ls \in UNION {[1..n -> DiscFiles] : n \in 0..MaxDiscLinks} :
     \A i \in DOMAIN ls : \A j \in DOMAIN ls : ls[i] = ls[j] => i = j}

\* an agent writes the article f into WIKI_DIR
DiscWrite(f) ==
  /\ f \notin wikiFiles
  /\ wikiFiles' = wikiFiles \cup {f}
  /\ UNCHANGED <<pc, task, newArticle, discLinks, srcDepth, discRan, workerLoop,
                 crashes, taskLock>>
  /\ UNCHANGED <<storeVars, graphVars, selTask>>
  /\ UNCHANGED coordVars
  /\ UNCHANGED <<discVars, txVars, snapVars, loopVars>>

\* the wiki_discover handler runs discoverConcepts(s, m); an article that
\* cannot be read has no links
Discover(s, m, ls) ==
  LET res == discoverConcepts(queue, wikiFiles, s, m, ls, now)
  IN  /\ s \notin wikiFiles => ls = <<>>
      /\ queue' = res.queue
      /\ discResult' = [sourceArticle |-> res.sourceArticle,
                        sourceDepth |-> res.sourceDepth,
                        maxDepth |-> res.maxDepth,
                        concepts |-> res.concepts]
      /\ UNCHANGED <<now, enqTrue, enqFalse, claimCount, sel>>
      /\ UNCHANGED <<workerVars, graphVars, selTask>>
      /\ UNCHANGED coordVars
      /\ UNCHANGED graphOp
      /\ UNCHANGED <<txVars, snapVars, loopVars>>

InitDiscSpec ==
  InitStore /\ InitWorkers /\ InitGraph /\ InitCoord /\ InitDisc

NextDisc ==
  \/ \E f \in DiscFiles : DiscWrite(f)
  \/ \E s \in DiscSources, m \in DiscMaxDepths, ls \in DiscLinkSeqs : Discover(s, m, ls)

SpecDisc == InitDiscSpec /\ [][NextDisc]_vars

\* the rows a step adds to discovery_queue
NewRows == {r \in queue' : r.id \notin {x.id : x \in queue}}

\* C14: a row that discovery inserts from a source has the depth of the
\* source plus one, where a source without a row has depth 0; and no row has a
\* depth smaller than the depth of its source.
C14_DepthIsSourcePlusOne ==
  [][/\ \A r \in NewRows :
          /\ r.source_article = discResult'.sourceArticle
          /\ r.depth = getArticleDepth(queue, r.source_article) + 1
     /\ \A r \in queue' : r.depth >= getArticleDepth(queue', r.source_article)]_vars

\* a row at depth 2 whose source has a row at depth 1
C14_Witness ==
  \E r \in queue : \E s \in queue :
    /\ s.target_filename = r.source_article
    /\ s.depth = 1
    /\ r.depth = 2

\* C15: discovery inserts no row whose depth, the depth of the source plus
\* one, is above the max_depth of the run; every row has a depth of at most
\* that maximum.
C15_DepthAtMostMax ==
  [][/\ \A r \in NewRows : r.depth <= discResult'.maxDepth
     /\ \A r \in queue' : r.depth <= MaxDiscDepth]_vars

\* a run skipped a link because its depth exceeds the maximum
C15_Witness ==
  \E i \in DOMAIN discResult.concepts :
    /\ discResult.concepts[i].reason = "exceeds max depth"
    /\ discResult.concepts[i].depth = discResult.maxDepth + 1
    /\ discResult.concepts[i].filename \notin {r.target_filename : r \in queue}
    /\ discResult.concepts[i].filename \notin wikiFiles

C18_PriorityGrowsWithReferences ==
  [][wikiFiles' = wikiFiles =>
       \A i \in DOMAIN discResult'.concepts : \A r \in queue :
         ( /\ discResult'.concepts[i].reason = "already in queue"
           /\ r.target_filename = discResult'.concepts[i].filename
           /\ r.source_article # discResult'.sourceArticle
           /\ r.priority < calculatePriority(r.depth, 5) )
         => \E n \in queue' : /\ n.target_filename = r.target_filename
                              /\ n.priority > r.priority]_vars

\* C17: queueDiscoveredConcept inserts a pending row and returns true
\* whenever the target has no pending or in_progress row, also when its only
\* row is completed; otherwise it returns false and the table is unchanged.
C17_EnqueueIgnoresCompleted ==
  [][\A t \in Files :
       /\ (~enqFalse[t] /\ enqFalse'[t]) => (LiveRows(t) # {} /\ queue' = queue)
       /\ \A r \in NewRows :
            r.target_filename = t => (LiveRows(t) = {} /\ r.status = Pending)]_vars

-----------------------------------------------------------------------------
(* SpecGraph: the tables articles and links under the functions that       *)
(* rewrite the links of a source and recount the inlinks                   *)

GraphFiles == {IndexFile, "a.html", "b.html"}

\* the targets a caller passes: the hrefs of a page in document order, which
\* may repeat
MaxTargets == 2
TargetSeqs == UNION {[1..n -> LinkTargets] : n \in 0..MaxTargets}

\* faulty variant: the DELETE removes nothing
clearLinksNothing(lnks, source) == lnks

\* DELETE FROM links WHERE source_id = ?
clearLinks(lnks, source) == {l \in lnks : l.source # source}

RECURSIVE insertLinks(_, _, _)
\* insertLink for each target in turn
insertLinks(lnks, source, ts) ==
  IF ts = <<>> THEN lnks
  ELSE insertLinks(insertLink(lnks, source, Head(ts)), source, Tail(ts))

\* clearLinks(source), then insertLink(source, t) for every target
replaceReferences(lnks, source, ts) ==
  insertLinks(clearLinks(lnks, source), source, ts)

\* UPDATE articles SET inlinks = 0
resetInlinks(arts) == {[a EXCEPT !.inlinks = 0] : a \in arts}

\* UPDATE articles SET inlinks = (SELECT COUNT(*) FROM links WHERE
\* links.target_filename = articles.filename)
countInlinks(arts, lnks) ==
  {[a EXCEPT !.inlinks = Cardinality({l \in lnks : l.target = a.filename})] :
     a \in arts}

\* faulty variant: only the reset to 0 is run
recalculateInlinkCountsResetOnly(arts, lnks) == resetInlinks(arts)

recalculateInlinkCounts(arts, lnks) == countInlinks(resetInlinks(arts), lnks)

\* the call is recorded: n is the parity of the number of calls, again tells
\* that the call before was the same call with the same arguments, ok that
\* the call returned and did not throw
CalledWith(op, source, ts, ok) ==
  graphOp' = [op |-> op, source |-> source, targets |-> ts, n |-> 1 - graphOp.n,
              again |-> (graphOp.op = op /\ graphOp.source = source
                                        /\ graphOp.targets = ts),
              ok |-> ok]

Called(op, source, ts) == CalledWith(op, source, ts, TRUE)

\* a caller runs insertArticle with the filename f and the inlinks n; the
\* INSERT throws when the filename is taken
GraphInsertArticle(f, n) ==
  LET res == insertArticle(articles, f, n)
  IN  /\ articles' = res.articles
      /\ CalledWith("insertArticle", f, <<>>, res.ok)
      /\ selTask' = NoTask
      /\ UNCHANGED <<links, placeholders, discResult>>
      /\ UNCHANGED <<txVars, snapVars, loopVars>>
      /\ UNCHANGED <<storeVars, workerVars>>
      /\ UNCHANGED coordVars

ClearLinks(s) ==
  /\ s \in ArticleNames(articles)
  /\ links' = clearLinks(links, s)
  /\ Called("clearLinks", s, <<>>)
  /\ selTask' = NoTask
  /\ UNCHANGED <<articles, placeholders, discResult>>
  /\ UNCHANGED <<txVars, snapVars, loopVars>>
  /\ UNCHANGED <<storeVars, workerVars>>
  /\ UNCHANGED coordVars

ReplaceReferences(s, ts) ==
  /\ s \in ArticleNames(articles)
  /\ Cardinality(replaceReferences(links, s, ts)) <= MaxLinks
  /\ links' = replaceReferences(links, s, ts)
  /\ Called("replaceReferences", s, ts)
  /\ selTask' = NoTask
  /\ UNCHANGED <<articles, placeholders, discResult>>
  /\ UNCHANGED <<txVars, snapVars, loopVars>>
  /\ UNCHANGED <<storeVars, workerVars>>
  /\ UNCHANGED coordVars

RecalculateInlinkCounts ==
  /\ articles' = recalculateInlinkCounts(articles, links)
  /\ Called("recalculateInlinkCounts", None, <<>>)
  /\ selTask' = NoTask
  /\ UNCHANGED <<links, placeholders, discResult>>
  /\ UNCHANGED <<txVars, snapVars, loopVars>>
  /\ UNCHANGED <<storeVars, workerVars>>
  /\ UNCHANGED coordVars

InitGraphSpec ==
  InitStore /\ InitWorkers /\ InitGraph /\ InitCoord /\ InitDisc

NextGraph ==
  \/ \E f \in GraphFiles, n \in 0..MaxInlinks : GraphInsertArticle(f, n)
  \/ \E s \in LinkSources : ClearLinks(s)
  \/ \E s \in LinkSources, ts \in TargetSeqs : ReplaceReferences(s, ts)
  \/ RecalculateInlinkCounts

SpecGraph == InitGraphSpec /\ [][NextGraph]_vars

Range(ts) == {ts[i] : i \in DOMAIN ts}

\* C19: right after recalculateInlinkCounts, the inlinks of every article
\* equal the number of rows of links whose target is the article.
C19_RecountMatchesLinks ==
  [][(graphOp' # graphOp /\ graphOp'.op = "recalculateInlinkCounts") =>
       /\ \A a \in articles' :
            a.inlinks = Cardinality({l \in links' : l.target = a.filename})
       /\ ArticleNames(articles') = ArticleNames(articles)
       /\ links' = links]_vars

\* a recount has changed a stored count to 2, the number of links to the
\* article
C19_Witness ==
  /\ graphOp.op = "recalculateInlinkCounts"
  /\ \E a \in articles :
       /\ a.inlinks = 2
       /\ Cardinality({l \in links : l.target = a.filename}) = 2

Unreferenced ==
  {a.filename : a \in {x \in articles :
      x.filename # IndexFile /\ ~\E l \in links : l.target = x.filename}}

\* C21: getOrphanArticles returns exactly the articles that no link points
\* to and that are not index.html, in every state that insertArticle and the
\* replacement of the links of a source reach.
C21_OrphansAreUnreferenced ==
  getOrphanArticles(articles) = Unreferenced

\* C22: insertArticle with a filename that is taken throws and leaves
\* articles and links unchanged; with a fresh filename it adds exactly one
\* row, the row of that filename.
C22_InsertArticleUniqueFilename ==
  [][(graphOp' # graphOp /\ graphOp'.op = "insertArticle") =>
       /\ links' = links
       /\ IF graphOp'.source \in ArticleNames(articles)
          THEN ~graphOp'.ok /\ articles' = articles
          ELSE /\ graphOp'.ok
               /\ articles \subseteq articles'
               /\ Cardinality(articles' \ articles) = 1
               /\ \A a \in articles' \ articles : a.filename = graphOp'.source]_vars

\* an insertArticle call has thrown for an article that has a link and a
\* stored count
C22_Witness ==
  /\ graphOp.op = "insertArticle"
  /\ ~graphOp.ok
  /\ \E a \in articles : /\ a.filename = graphOp.source
                         /\ a.inlinks = 1
                         /\ \E l \in links : l.source = a.filename

\* the workers inside fetch_task or run_discovery between acquire_file_lock
\* and release_file_lock of ${TASK_LOCK}.dir
InTaskSection == {w \in Workers : pc[w] \in {"select", "mark", "choose", "release",
                                             "discovering"}}

\* worker w dies, or its task fails: the task lock times out, the tool
\* returns nothing, the isolation directory is not made, or the agent ends
\* without a new article
WorkerDies(w) == pc[w] # "dead" /\ pc'[w] = "dead"
TaskFails(w) ==
  \/ pc[w] = "fetch" /\ pc'[w] = "idle"
  \/ pc[w] = "release" /\ pc'[w] = "idle"
  \/ pc[w] = "agent" /\ pc'[w] = "idle"
  \/ pc[w] = "running" /\ pc'[w] = "loop_end"

\* C23: when a worker dies or the task of a worker fails, the coordinator
\* keeps the state it has and every other worker stays where it is; the
\* worker whose task failed goes on with its loop.
C23_FailureIsContained ==
  [][\A w \in Workers :
       /\ (WorkerDies(w) \/ TaskFails(w)) =>
            /\ coord' = coord
            /\ \A v \in Workers \ {w} : pc'[v] = pc[v] /\ live'[v] = live[v]
       /\ TaskFails(w) => pc'[w] \in {"idle", "loop_end"}]_vars

\* a worker is dead, the coordinator runs and another worker runs its agent
C23_Witness ==
  \E w \in Workers : \E v \in Workers \ {w} :
    /\ pc[w] = "dead"
    /\ coord = "running"
    /\ pc[v] = "running"

\* C25: at most one worker is between its acquire_file_lock and its
\* release_file_lock of the task lock.
C25_OneWorkerInTaskSection ==
  Cardinality(InTaskSection) <= 1

\* worker w ends its agent run with a new file in WIKI_DIR: written by the
\* agent or copied by run_worker from the isolation directory
WritesWiki(w) ==
  /\ pc[w] = "running"
  /\ pc'[w] # "running"
  /\ wikiFiles' # wikiFiles

\* C26: a worker writes a file into WIKI_DIR only while it holds the copy
\* lock.
C26_WikiWrittenUnderCopyLock ==
  [][\A w \in Workers : WritesWiki(w) => copyLock = w]_vars

-----------------------------------------------------------------------------
(* SpecTx: runMigration, the caller of recalculateInlinkCounts, runs as one *)
(* transaction while another connection reads the orphans                  *)

TxFiles == {IndexFile, "a.html"}
TxTargets == {"a.html", "b.html"}

\* faulty variant: a reader sees the uncommitted tables of the open transaction
VisibleDirty(committed, t) ==
  IF t.phase = "none" THEN committed ELSE [articles |-> t.articles, links |-> t.links]

\* the tables a statement of another connection reads while the transaction
\* t is open: the committed ones
Visible(committed, t) == committed

Committed == [articles |-> articles, links |-> links]

\* initializeDatabase: needsMigration() finds no row in articles
NeedsMigration ==
  /\ articles = {}
  /\ ~tx.need
  /\ tx' = [tx EXCEPT !.need = TRUE]
  /\ UNCHANGED <<seen, graphVars, selTask>>
  /\ UNCHANGED <<storeVars, workerVars>>
  /\ UNCHANGED coordVars
  /\ UNCHANGED <<discVars, loopVars, snapVars>>

\* runMigration: the transaction begins, DELETE FROM links, articles
MigBegin ==
  /\ tx.need
  /\ tx.phase = "none"
  /\ tx' = [phase |-> "insert", need |-> FALSE, articles |-> {}, links |-> {}]
  /\ UNCHANGED <<seen, graphVars, selTask>>
  /\ UNCHANGED <<storeVars, workerVars>>
  /\ UNCHANGED coordVars
  /\ UNCHANGED <<discVars, loopVars, snapVars>>

\* runMigration, step 1: insertArticle for an entry of ecosystem.json; when
\* the INSERT throws, the transaction is rolled back
MigInsertArticle(f, n) ==
  LET res == insertArticle(tx.articles, f, n)
  IN  /\ tx.phase = "insert"
      /\ tx.links = {}
      /\ tx' = IF res.ok THEN [tx EXCEPT !.articles = res.articles]
                         ELSE [NoTx EXCEPT !.need = tx.need]
      /\ UNCHANGED <<seen, graphVars, selTask>>
      /\ UNCHANGED <<storeVars, workerVars>>
      /\ UNCHANGED coordVars
      /\ UNCHANGED <<discVars, loopVars, snapVars>>

\* runMigration, step 3: insertLink for an href of the file of an article
MigInsertLink(s, t) ==
  /\ tx.phase = "insert"
  /\ s \in ArticleNames(tx.articles)
  /\ Cardinality(insertLink(tx.links, s, t)) <= MaxLinks
  /\ tx' = [tx EXCEPT !.links = insertLink(tx.links, s, t)]
  /\ UNCHANGED <<seen, graphVars, selTask>>
  /\ UNCHANGED <<storeVars, workerVars>>
  /\ UNCHANGED coordVars
  /\ UNCHANGED <<discVars, loopVars, snapVars>>

\* runMigration, step 4: recalculateInlinkCounts, first UPDATE
MigReset ==
  /\ tx.phase = "insert"
  /\ tx' = [tx EXCEPT !.phase = "reset", !.articles = resetInlinks(tx.articles)]
  /\ UNCHANGED <<seen, graphVars, selTask>>
  /\ UNCHANGED <<storeVars, workerVars>>
  /\ UNCHANGED coordVars
  /\ UNCHANGED <<discVars, loopVars, snapVars>>

\* recalculateInlinkCounts, second UPDATE
MigCount ==
  /\ tx.phase = "reset"
  /\ tx' = [tx EXCEPT !.phase = "count",
                      !.articles = countInlinks(tx.articles, tx.links)]
  /\ UNCHANGED <<seen, graphVars, selTask>>
  /\ UNCHANGED <<storeVars, workerVars>>
  /\ UNCHANGED coordVars
  /\ UNCHANGED <<discVars, loopVars, snapVars>>

\* the transaction commits
MigCommit ==
  /\ tx.phase = "count"
  /\ articles' = tx.articles
  /\ links' = tx.links
  /\ tx' = [NoTx EXCEPT !.need = tx.need]
  /\ UNCHANGED <<seen, placeholders, selTask>>
  /\ UNCHANGED <<storeVars, workerVars>>
  /\ UNCHANGED coordVars
  /\ UNCHANGED <<discVars, loopVars, snapVars>>

\* another connection runs getOrphanArticles (selectNextTask, health check)
ReadOrphans ==
  /\ seen' = [orphans |-> getOrphanArticles(Visible(Committed, tx).articles),
              n |-> 1 - seen.n, during |-> tx.phase]
  /\ UNCHANGED <<tx, graphVars, selTask>>
  /\ UNCHANGED <<storeVars, workerVars>>
  /\ UNCHANGED coordVars
  /\ UNCHANGED <<discVars, loopVars, snapVars>>

InitTx ==
  InitStore /\ InitWorkers /\ InitCoord /\ InitDisc
    /\ articles = {} /\ links = {} /\ placeholders = {} /\ selTask = NoTask

NextTx ==
  \/ NeedsMigration
  \/ MigBegin
  \/ \E f \in TxFiles, n \in 0..MaxInlinks : MigInsertArticle(f, n)
  \/ \E s \in TxFiles, t \in TxTargets : MigInsertLink(s, t)
  \/ MigReset
  \/ MigCount
  \/ MigCommit
  \/ ReadOrphans

SpecTx == InitTx /\ [][NextTx]_vars

\* C27: a getOrphanArticles call of a connection that runs beside the
\* recount returns no article that a link it can read points to: it never
\* reads the state between the reset and the recomputation of the counts.
C27_RecountIsOneTransaction ==
  [][seen'.n # seen.n =>
       \A f \in seen'.orphans :
          ~\E l \in Visible(Committed, tx).links : l.target = f]_vars

\* a reader ran between the two UPDATEs of a recount whose transaction holds
\* a link to a.html, and a.html was committed with an inbound link before
C27_Witness ==
  /\ tx.phase = "reset"
  /\ \E l \in tx.links : l.target = "a.html"
  /\ \E a \in articles : a.filename = "a.html" /\ a.inlinks > 0
  /\ seen.during = "reset"
  /\ seen.orphans = {}

-----------------------------------------------------------------------------
(* SpecLock: run_worker with the steps of acquire_file_lock and of          *)
(* increment_global_loop; the agents write no article                      *)

\* fetch_task: acquire_file_lock "${TASK_LOCK}.dir" 30
TASK_LOCK_TIMEOUT == 30
\* increment_global_loop: acquire_file_lock "${GLOBAL_LOOP_COUNT}.lock" 10
LOOP_LOCK_TIMEOUT == 10

\* the waits of acquire_file_lock are cut at MaxWait failed attempts
MaxWait == 2
LockAttempts(timeout) == Min(timeout, MaxWait)

\* faulty variant: the loop never gives up
lockTimedOutNever(n, timeout) == FALSE

\* acquire_file_lock: [[ $waited -ge $timeout ]] after a failed mkdir
lockTimedOut(n, timeout) == n >= LockAttempts(timeout)

\* run_worker, top of the loop: ((worker_loop++)), then increment_global_loop
\* is called
LoopTopCount(w) ==
  /\ pc[w] = "idle"
  /\ workerLoop[w] < MaxLoops
  /\ workerLoop' = [workerLoop EXCEPT ![w] = @ + 1]
  /\ iterations' = iterations + 1
  /\ waited' = [waited EXCEPT ![w] = 0]
  /\ pc' = [pc EXCEPT ![w] = "inc_lock"]
  /\ UNCHANGED <<task, newArticle, discLinks, srcDepth, discRan, crashes,
                 taskLock, wikiFiles>>
  /\ UNCHANGED <<storeVars, graphVars, selTask>>
  /\ UNCHANGED coordVars
  /\ UNCHANGED <<discVars, txVars, snapVars>>
  /\ UNCHANGED <<loopFile, loopLock, count, maxWritten>>

\* increment_global_loop: one turn of the loop of acquire_file_lock; on a
\* timeout the function returns 1 and run_worker goes on without a number
IncAcquire(w) ==
  /\ pc[w] = "inc_lock"
  /\ IF acquire_file_lock(loopLock)
     THEN /\ loopLock' = TRUE
          /\ waited' = [waited EXCEPT ![w] = 0]
          /\ pc' = [pc EXCEPT ![w] = "inc_read"]
     ELSE IF lockTimedOut(waited[w], LOOP_LOCK_TIMEOUT)
     THEN /\ loopLock' = loopLock
          /\ waited' = [waited EXCEPT ![w] = 0]
          /\ pc' = [pc EXCEPT ![w] = "fetch_lock"]
     ELSE /\ loopLock' = loopLock
          /\ waited' = [waited EXCEPT ![w] = @ + 1]
          /\ pc' = pc
  /\ UNCHANGED <<task, newArticle, discLinks, srcDepth, discRan, workerLoop,
                 crashes, taskLock, wikiFiles>>
  /\ UNCHANGED <<storeVars, graphVars, selTask>>
  /\ UNCHANGED coordVars
  /\ UNCHANGED <<discVars, txVars, snapVars>>
  /\ UNCHANGED <<loopFile, count, maxWritten, iterations>>

\* count=$(cat "$GLOBAL_LOOP_COUNT" 2>/dev/null || echo 0)
IncRead(w) ==
  /\ pc[w] = "inc_read"
  /\ count' = [count EXCEPT ![w] = IF loopFile = -1 THEN 0 ELSE loopFile]
  /\ pc' = [pc EXCEPT ![w] = "inc_write"]
  /\ UNCHANGED <<task, newArticle, discLinks, srcDepth, discRan, workerLoop,
                 crashes, taskLock, wikiFiles>>
  /\ UNCHANGED <<storeVars, graphVars, selTask>>
  /\ UNCHANGED coordVars
  /\ UNCHANGED <<discVars, txVars, snapVars>>
  /\ UNCHANGED <<loopFile, loopLock, waited, maxWritten, iterations>>

\* count=$((count + 1)); echo "$count" > "$GLOBAL_LOOP_COUNT"
IncWrite(w) ==
  /\ pc[w] = "inc_write"
  /\ loopFile' = count[w] + 1
  /\ maxWritten' = Max(maxWritten, count[w] + 1)
  /\ pc' = [pc EXCEPT ![w] = "inc_release"]
  /\ UNCHANGED <<task, newArticle, discLinks, srcDepth, discRan, workerLoop,
                 crashes, taskLock, wikiFiles>>
  /\ UNCHANGED <<storeVars, graphVars, selTask>>
  /\ UNCHANGED coordVars
  /\ UNCHANGED <<discVars, txVars, snapVars>>
  /\ UNCHANGED <<loopLock, waited, count, iterations>>

\* release_file_lock; the number is returned and fetch_task is called
IncRelease(w) ==
  /\ pc[w] = "inc_release"
  /\ loopLock' = FALSE
  /\ count' = [count EXCEPT ![w] = 0]
  /\ pc' = [pc EXCEPT ![w] = "fetch_lock"]
  /\ UNCHANGED <<task, newArticle, discLinks, srcDepth, discRan, workerLoop,
                 crashes, taskLock, wikiFiles>>
  /\ UNCHANGED <<storeVars, graphVars, selTask>>
  /\ UNCHANGED coordVars
  /\ UNCHANGED <<discVars, txVars, snapVars>>
  /\ UNCHANGED <<loopFile, waited, maxWritten, iterations>>

\* fetch_task: one turn of the loop of acquire_file_lock; on a timeout
\* fetch_task returns 1 and run_worker sleeps
FetchAcquire(w) ==
  /\ pc[w] = "fetch_lock"
  /\ IF acquire_file_lock(taskLock)
     THEN /\ taskLock' = TRUE
          /\ waited' = [waited EXCEPT ![w] = 0]
          /\ pc' = [pc EXCEPT ![w] = "fetching"]
     ELSE IF lockTimedOut(waited[w], TASK_LOCK_TIMEOUT)
     THEN /\ taskLock' = taskLock
          /\ waited' = waited
          /\ pc' = [pc EXCEPT ![w] = "sleep"]
     ELSE /\ taskLock' = taskLock
          /\ waited' = [waited EXCEPT ![w] = @ + 1]
          /\ pc' = pc
  /\ UNCHANGED <<task, newArticle, discLinks, srcDepth, discRan, workerLoop,
                 crashes, wikiFiles>>
  /\ UNCHANGED <<storeVars, graphVars, selTask>>
  /\ UNCHANGED coordVars
  /\ UNCHANGED <<discVars, txVars, snapVars>>
  /\ UNCHANGED <<loopFile, loopLock, count, maxWritten, iterations>>

\* fetch_task: the tool has answered; release_file_lock; the answer is a
\* task (ok), or it is empty or not JSON and run_worker sleeps
FetchReturn(w, ok) ==
  /\ pc[w] = "fetching"
  /\ taskLock' = FALSE
  /\ pc' = [pc EXCEPT ![w] = IF ok THEN "agent" ELSE "sleep"]
  /\ UNCHANGED <<task, newArticle, discLinks, srcDepth, discRan, workerLoop,
                 crashes, wikiFiles>>
  /\ UNCHANGED <<storeVars, graphVars, selTask>>
  /\ UNCHANGED coordVars
  /\ UNCHANGED <<discVars, txVars, snapVars, loopVars>>

\* run_worker: sleep 10; continue
Backoff(w) ==
  /\ pc[w] = "sleep"
  /\ pc' = [pc EXCEPT ![w] = "idle"]
  /\ UNCHANGED <<task, newArticle, discLinks, srcDepth, discRan, workerLoop,
                 crashes, taskLock, wikiFiles>>
  /\ UNCHANGED <<storeVars, graphVars, selTask>>
  /\ UNCHANGED coordVars
  /\ UNCHANGED <<discVars, txVars, snapVars, loopVars>>

\* the claude process of worker w ends; it has written no article
AgentReturns(w) ==
  /\ pc[w] = "running"
  /\ iso' = [iso EXCEPT ![w] = FALSE]
  /\ pc' = [pc EXCEPT ![w] = "loop_end"]
  /\ UNCHANGED <<task, newArticle, discLinks, srcDepth, discRan, workerLoop,
                 crashes, taskLock, wikiFiles>>
  /\ UNCHANGED <<storeVars, graphVars, selTask>>
  /\ UNCHANGED <<coord, coordLock, other, doneMarker, live, orphanIso, copyLock>>
  /\ UNCHANGED <<discVars, txVars, snapVars, loopVars>>

NextLock ==
  \/ \E w \in Workers : LoopTopCount(w)
  \/ \E w \in Workers : IncAcquire(w)
  \/ \E w \in Workers : IncRead(w)
  \/ \E w \in Workers : IncWrite(w)
  \/ \E w \in Workers : IncRelease(w)
  \/ \E w \in Workers : FetchAcquire(w)
  \/ \E w \in Workers, ok \in BOOLEAN : FetchReturn(w, ok)
  \/ \E w \in Workers : Backoff(w)
  \/ \E w \in Workers : SetupIsolation(w)
  \/ \E w \in Workers : AgentReturns(w)
  \/ \E w \in Workers : LoopEnd(w)
  \/ \E w \in Workers : Crash(w)
  \/ RejectedStart

SpecLock == Init /\ [][NextLock]_vars

\* the steps of worker w that its own process takes once it is scheduled; the
\* return of the claude process and the death of the worker are not among them
WorkerStep(w) ==
  \/ LoopTopCount(w)
  \/ IncAcquire(w)
  \/ IncRead(w)
  \/ IncWrite(w)
  \/ IncRelease(w)
  \/ FetchAcquire(w)
  \/ \E ok \in BOOLEAN : FetchReturn(w, ok)
  \/ Backoff(w)
  \/ SetupIsolation(w)
  \/ LoopEnd(w)

\* SpecLock with every worker scheduled again and again
SpecLockLive == SpecLock /\ \A w \in Workers : WF_vars(WorkerStep(w))

\* get_global_loop: cat "$GLOBAL_LOOP_COUNT" 2>/dev/null || echo 0
get_global_loop(file) == IF file = -1 THEN 0 ELSE file

\* workers between the top of the loop and the write of their number
Incrementing == {w \in Workers : pc[w] \in {"inc_lock", "inc_read", "inc_write"}}

\* C28: the global loop counter loses no update: while the coordinator runs
\* its value never decreases, every increment writes a number that no
\* increment has written before, and when no live worker is between the top
\* of its loop and the write of its number, the value is the number of
\* iterations that the workers have begun since the coordinator started
C28_LoopCounterLosesNoUpdate ==
  [][/\ coord = "running" => get_global_loop(loopFile') >= get_global_loop(loopFile)
     /\ \A w \in Workers :
          (pc[w] = "inc_write" /\ pc'[w] = "inc_release") => loopFile' > maxWritten
     /\ (crashes' = 0 /\ Incrementing' = {}) => get_global_loop(loopFile') = iterations']_vars

C30_AgentStepEnds ==
  \A w \in Workers : (pc[w] = "running") ~> (pc[w] # "running")

\* type and target of the tasks selectNextTask may return in this state
SelectableTargets ==
  {<<t.taskType, t.filename>> : t \in selectNextTask(queue, articles, links, placeholders)}

\* C24: selectNextTask is a function of the graph state: in every state of
\* the tables, the queue and the placeholder files, all its calls return the
\* same task type and the same target
C24_SelectionIsDeterministic == Cardinality(SelectableTargets) = 1

\* rows of the queue that are completed and were discovered more than d days ago
CompletedOlderThan(d) ==
  {r \in queue : r.status = Completed /\ r.discovered_at < now - d}

\* C34: pruneCompletedDiscoveryItems(d) deletes the rows that are completed
\* and older than d days and no other row, leaves every other row, the
\* articles and the links as they are, and returns the number of deleted rows
C34_PruneDeletesOldCompletedOnly ==
  [][(graphOp' # graphOp /\ graphOp'.op = "pruneCompletedDiscoveryItems") =>
       /\ queue' = queue \ CompletedOlderThan(graphOp'.daysOld)
       /\ graphOp'.changes = Cardinality(CompletedOlderThan(graphOp'.daysOld))
       /\ articles' = articles
       /\ links' = links]_vars

\* a call has deleted one row and has left a row that is completed and younger
C34_Witness ==
  /\ graphOp.op = "pruneCompletedDiscoveryItems"
  /\ graphOp.daysOld = 0
  /\ graphOp.changes = 1
  /\ now = 1
  /\ \E r \in queue : r.status = Completed /\ r.discovered_at = 1
  /\ \A r \in queue : r.discovered_at = 1

\* instances of the coordinator script that run: the one that started the
\* workers of Init, and the one a later start has made
RunningInstances ==
  (IF coord # "exited" THEN {"main"} ELSE {}) \cup (IF other THEN {"other"} ELSE {})

\* C33: at most one instance of the coordinator script runs at a time
C33_OneCoordinatorInstance == Cardinality(RunningInstances) <= 1

\* C35: a start that is rejected because the holder of the pid file runs
\* leaves the pid file, the task and copy lock directories, the loop count
\* file, the done markers and the isolation directories as they are
C35_RejectedStartChangesNothing ==
  [][RejectedStart =>
       /\ coordLock' = coordLock
       /\ taskLock' = taskLock
       /\ copyLock' = copyLock
       /\ loopFile' = loopFile
       /\ doneMarker' = doneMarker
       /\ iso' = iso
       /\ orphanIso' = orphanIso]_vars

\* C32: the isolation directory of an iteration exists only while the agent
\* of that iteration runs: it is gone when the worker is at any other place
\* of its loop, has ended at its loop limit or has stopped on the signal
C32_IsolationRemovedAfterAgent ==
  \A w \in Workers : iso[w] => pc[w] = "running"

\* the agent of worker 1 wrote no new article and its directory is removed;
\* worker 2 was stopped by the signal while its agent ran
C32_Witness ==
  /\ pc[1] = "loop_end"
  /\ newArticle[1] = None
  /\ task[1] # NoTask
  /\ ~iso[1]
  /\ pc[2] = "stopped"
  /\ task[2] # NoTask
  /\ ~iso[2]

\* C31: a worker that has detected a new article ends that iteration only
\* after run_discovery has run the discovery tool against the article
C31_NewArticleIsDiscovered ==
  [][\A w \in Workers :
       (pc[w] # "loop_end" /\ pc'[w] = "loop_end" /\ newArticle'[w] # None) =>
         discRan'[w]]_vars

-----------------------------------------------------------------------------
(* SpecSnap: run_worker with the two snapshots of WIKI_DIR around the agent *)

\* place of a file name in the output of sort
SortRank(f) == IF f = IndexFile THEN 3 ELSE IF f = "a.html" THEN 1 ELSE 2

\* head -1 of a sorted list of files
FirstOf(fs) == CHOOSE f \in fs : \A g \in fs : SortRank(f) <= SortRank(g)

\* comm -13 "$snapshot_file" "$after_file"
newFiles(before, after) == after \ before

\* run_worker from the top of the loop to the snapshot: a task was fetched,
\* the isolation directory is set up and the files of WIKI_DIR are listed
StartIteration(w) ==
  /\ pc[w] = "idle"
  /\ workerLoop[w] < MaxLoops
  /\ workerLoop' = [workerLoop EXCEPT ![w] = @ + 1]
  /\ task' = [task EXCEPT ![w] = Task("create_new", "low", "to-be-determined.html")]
  /\ newArticle' = [newArticle EXCEPT ![w] = None]
  /\ discRan' = [discRan EXCEPT ![w] = FALSE]
  /\ iso' = [iso EXCEPT ![w] = TRUE]
  /\ snapshot' = [snapshot EXCEPT ![w] = wikiFiles]
  /\ isoFiles' = [isoFiles EXCEPT ![w] = {}]
  /\ produced' = [produced EXCEPT ![w] = {}]
  /\ pc' = [pc EXCEPT ![w] = "running"]
  /\ UNCHANGED <<discLinks, srcDepth, crashes, taskLock, wikiFiles>>
  /\ UNCHANGED <<storeVars, graphVars, selTask>>
  /\ UNCHANGED <<coord, coordLock, other, doneMarker, live, orphanIso, copyLock>>
  /\ UNCHANGED <<discVars, txVars, loopVars>>

\* the agent of worker w creates file f in WIKI_DIR through an MCP tool
AgentWritesWiki(w, f) ==
  /\ pc[w] = "running"
  /\ f \notin wikiFiles
  /\ wikiFiles' = wikiFiles \cup {f}
  /\ produced' = [produced EXCEPT ![w] = @ \cup {f}]
  /\ UNCHANGED <<pc, task, newArticle, discLinks, srcDepth, discRan, workerLoop,
                 crashes, taskLock>>
  /\ UNCHANGED <<storeVars, graphVars, selTask>>
  /\ UNCHANGED coordVars
  /\ UNCHANGED <<discVars, txVars, loopVars>>
  /\ UNCHANGED <<snapshot, isoFiles>>

\* the agent of worker w creates file f in its isolation directory
AgentWritesIsolation(w, f) ==
  /\ pc[w] = "running"
  /\ f \notin snapshot[w]
  /\ f \notin isoFiles[w]
  /\ isoFiles' = [isoFiles EXCEPT ![w] = @ \cup {f}]
  /\ produced' = [produced EXCEPT ![w] = @ \cup {f}]
  /\ UNCHANGED workerVars
  /\ UNCHANGED <<storeVars, graphVars, selTask>>
  /\ UNCHANGED coordVars
  /\ UNCHANGED <<discVars, txVars, loopVars>>
  /\ UNCHANGED snapshot

\* run_worker after the agent: the second snapshot, new_article from the
\* difference or else from the isolation directory, the copy of the
\* isolation files and the removal of the isolation directory
DetectNew(w) ==
  LET new_files == newFiles(snapshot[w], wikiFiles)
      new_article == IF new_files # {} THEN FirstOf(new_files)
                     ELSE IF isoFiles[w] # {} THEN FirstOf(isoFiles[w])
                     ELSE None
  IN  /\ pc[w] = "running"
      /\ newArticle' = [newArticle EXCEPT ![w] = new_article]
      /\ wikiFiles' = wikiFiles \cup isoFiles[w]
      /\ isoFiles' = [isoFiles EXCEPT ![w] = {}]
      /\ iso' = [iso EXCEPT ![w] = FALSE]
      /\ pc' = [pc EXCEPT ![w] = IF new_article = None THEN "loop_end" ELSE "discover"]
      /\ UNCHANGED <<task, discLinks, srcDepth, discRan, workerLoop, crashes, taskLock>>
      /\ UNCHANGED <<storeVars, graphVars, selTask>>
      /\ UNCHANGED <<coord, coordLock, other, doneMarker, live, orphanIso, copyLock>>
      /\ UNCHANGED <<discVars, txVars, loopVars>>
      /\ UNCHANGED <<snapshot, produced>>

NextSnap ==
  \/ \E w \in Workers : StartIteration(w)
  \/ \E w \in Workers, f \in Files : AgentWritesWiki(w, f)
  \/ \E w \in Workers, f \in Files : AgentWritesIsolation(w, f)
  \/ \E w \in Workers : DetectNew(w)
  \/ \E w \in Workers : DiscoveryAcquire(w, {})
  \/ \E w \in Workers : DiscoverySkip(w)
  \/ \E w \in Workers : DiscoveryRelease(w)
  \/ \E w \in Workers : LoopEnd(w)

SpecSnap == Init /\ [][NextSnap]_vars

\* C36: the article a worker detects as new after its agent ran is a file
\* that its own agent wrote in this iteration
C36_DetectedArticleIsOwn ==
  [][\A w \in Workers :
       (pc[w] = "running" /\ pc'[w] # "running" /\ newArticle'[w] # None) =>
         newArticle'[w] \in produced[w]]_vars

\* SpecLockLive with agents that always return
SpecLockAgentsReturn == SpecLockLive /\ \A w \in Workers : WF_vars(AgentReturns(w))

\* the directory of the task lock exists and no live worker is between the
\* mkdir and the rmdir of fetch_task
OrphanedTaskLock == taskLock /\ \A w \in Workers : pc[w] # "fetching"

\* the directory of the loop count lock exists and no live worker is
\* between the mkdir and the rmdir of increment_global_loop
OrphanedLoopLock ==
  loopLock /\ \A w \in Workers : pc[w] \notin {"inc_read", "inc_write", "inc_release"}

-----------------------------------------------------------------------------
(* SpecFetch: the workers with the wiki_next_task handler of the source,   *)
(* which hands out what selectNextTask returns                             *)

\* fetch_task: the handler of wiki_next_task returns the task of selectNextTask
FetchNextTask(w) ==
  /\ pc[w] = "select"
  /\ \E t \in selectNextTask(queue, articles, links, placeholders) :
       task' = [task EXCEPT ![w] = t]
  /\ pc' = [pc EXCEPT ![w] = "release"]
  /\ UNCHANGED <<newArticle, discLinks, srcDepth, discRan, workerLoop,
                 crashes, taskLock, wikiFiles>>
  /\ UNCHANGED <<storeVars, graphVars, selTask>>
  /\ UNCHANGED coordVars
  /\ UNCHANGED <<discVars, txVars, loopVars, snapVars>>

\* the steps of worker w in SpecFetch
FetchWorkerStep(w) ==
  \/ LoopTop(w)
  \/ AcquireTaskLock(w)
  \/ TaskLockTimeout(w)
  \/ FetchNextTask(w)
  \/ ReleaseTaskLock(w)
  \/ SetupIsolation(w)
  \/ \E n \in Files \cup {None} : RunAgent(w, n)
  \/ \E ls \in SUBSET Files : DiscoveryAcquire(w, ls)
  \/ DiscoverySkip(w)
  \/ \E l \in Files : DiscoverLink(w, l)
  \/ DiscoveryRelease(w)
  \/ LoopEnd(w)

NextFetch ==
  \/ \E w \in Workers : LoopTop(w)
  \/ \E w \in Workers : AcquireTaskLock(w)
  \/ \E w \in Workers : TaskLockTimeout(w)
  \/ \E w \in Workers : FetchNextTask(w)
  \/ \E w \in Workers : ReleaseTaskLock(w)
  \/ \E w \in Workers : SetupIsolation(w)
  \/ \E w \in Workers, n \in Files \cup {None} : RunAgent(w, n)
  \/ \E w \in Workers, ls \in SUBSET Files : DiscoveryAcquire(w, ls)
  \/ \E w \in Workers : DiscoverySkip(w)
  \/ \E w \in Workers, l \in Files : DiscoverLink(w, l)
  \/ \E w \in Workers : DiscoveryRelease(w)
  \/ \E w \in Workers : LoopEnd(w)

\* every worker is scheduled again and again
SpecFetch ==
  Init /\ [][NextFetch]_vars /\ \A w \in Workers : WF_vars(FetchWorkerStep(w))

\* target t has a row with status st and a depth within MAX_DISCOVERY_DEPTH
RowWithin(t, st) ==
  \E r \in queue :
    r.target_filename = t /\ r.status = st /\ r.depth <= MAX_DISCOVERY_DEPTH

C39_AtMostBudgetIterations ==
  MAX_LOOPS_PER_WORKER > 0 => \A w \in Workers : workerLoop[w] <= MAX_LOOPS_PER_WORKER

====
